---- MODULE Spec2Model ----
(***************************************************************************)
(* A model of report_generator.py: the daily collection job (--cron), the  *)
(* live report (--fetch) and the report from a stored date (--date), over  *)
(* the sqlite table "bugs" keyed (date, attribute, category).              *)
(*                                                                         *)
(* Strings are TLA+ strings; Chars gives the code points of the strings    *)
(* that are ever compared or searched.  Decimal numerals (the result of    *)
(* str(n)) are sequences of digit code points, so that str and int are     *)
(* real conversions.  A table row is <<category, total, owned, unowned>>,  *)
(* indices 1..4 for Python's 0..3.                                         *)
(***************************************************************************)
EXTENDS Integers, Sequences, FiniteSets, TLC

\* ---------------------------------------------------------------- bounds
\* longest bug list one tracker query returns
MaxBugs == 3
\* number of calendar days the clock runs through
MaxDate == 2
\* number of program runs started in one behaviour
MaxRuns == 2
\* longest row list handed to draw_table in the function-level specification
MaxRows == 3

\* the limit both report branches pass to draw_table
DisplayLimit == 10

\* Python's None where the program expects a number (limit, show_delta_days,
\* the exit status of a run that has not ended)
None == -1

Procs == {1, 2}
Dates == 1..MaxDate

Min(S) == CHOOSE x \in S : \A y \in S : x <= y
Range(f) == {f[i] : i \in DOMAIN f}

\* ------------------------------------------------------------ constants
SORT_MAP ==
  ("urgent" :> "1") @@ ("high" :> "2") @@ ("medium" :> "3") @@ ("low" :> "4")
  @@ ("unspecified" :> "4") @@ ("NEW" :> "1") @@ ("ASSIGNED" :> "2")
  @@ ("MODIFIED" :> "3") @@ ("ON_QA" :> "4")

TABLES ==
  << <<"priority", "Priority">>, <<"status", "Status">>,
     <<"severity", "Severity">>, <<"component", "Component">>,
     <<"version", "Distro Version">> >>

Attributes == {TABLES[i][1] : i \in 1..Len(TABLES)}

VALID_BUG_STATUSES == {"NEW", "ASSIGNED", "MODIFIED", "ON_QA"}

\* ------------------------------------------------------- strings, numbers
\* code points of the strings the program compares (sort keys) or searches
\* (status_whiteboard)
Chars(s) ==
  CASE s = "" -> <<>>
    [] s = "1" -> <<49>>
    [] s = "2" -> <<50>>
    [] s = "3" -> <<51>>
    [] s = "4" -> <<52>>
    [] s = "22" -> <<50, 50>>
    [] s = "23" -> <<50, 51>>
    [] s = "3x" -> <<51, 120>>
    [] s = "POST" -> <<80, 79, 83, 84>>
    [] s = "rawhide" -> <<114, 97, 119, 104, 105, 100, 101>>
    [] s = "kernel" -> <<107, 101, 114, 110, 101, 108>>
    [] s = "bash" -> <<98, 97, 115, 104>>
    [] s = "fst_owner" -> <<102, 115, 116, 95, 111, 119, 110, 101, 114>>
    [] s = "x fst_owner=al" ->
         <<120, 32, 102, 115, 116, 95, 111, 119, 110, 101, 114, 61, 97, 108>>
    [] s = "fst_own" -> <<102, 115, 116, 95, 111, 119, 110>>
    [] s = "urgent" -> <<117, 114, 103, 101, 110, 116>>
    [] s = "high" -> <<104, 105, 103, 104>>
    [] s = "medium" -> <<109, 101, 100, 105, 117, 109>>
    [] s = "low" -> <<108, 111, 119>>
    [] s = "unspecified" -> <<117, 110, 115, 112, 101, 99, 105, 102, 105, 101, 100>>
    [] s = "NEW" -> <<78, 69, 87>>
    [] s = "ASSIGNED" -> <<65, 83, 83, 73, 71, 78, 69, 68>>
    [] s = "MODIFIED" -> <<77, 79, 68, 73, 70, 73, 69, 68>>
    [] s = "ON_QA" -> <<79, 78, 95, 81, 65>>

\* Python's "sub in text" on str
Contains(sub, text) ==
  \E i \in 0..(Len(text) - Len(sub)) :
     \A j \in 1..Len(sub) : text[i + j] = sub[j]

\* Python's "a < b" on str: lexicographic by code point, a proper prefix first
StrLess(a, b) ==
  \E i \in 1..(Len(b)) :
     /\ \A j \in 1..(i - 1) : j <= Len(a) /\ a[j] = b[j]
     /\ i - 1 <= Len(a)
     /\ (i > Len(a) \/ a[i] < b[i])

\* str(n) for n >= 0: the decimal digits, most significant first
RECURSIVE str(_)
str(n) == IF n < 10 THEN <<48 + n>> ELSE Append(str(n \div 10), 48 + (n % 10))

\* int(s) of a decimal numeral
RECURSIVE int(_)
int(s) ==
  IF Len(s) = 0 THEN 0
  ELSE 10 * int(SubSeq(s, 1, Len(s) - 1)) + (s[Len(s)] - 48)

\* sorted(iterable, key=...) and sorted(..., reverse=True): a stable sort.
\* before[i][j] says that element i of the input must come before element j
\* (its key is smaller, or greater under reverse=True); elements neither of
\* which must come before the other keep their input order.  The positions
\* 1..Len(iterable) are sorted by insertion, then replaced by the elements.
StableInsert(seq, x, before) ==
  LET later == {i \in 1..Len(seq) : before[x][seq[i]]}
  IN  IF later = {} THEN Append(seq, x)
      ELSE LET i == Min(later)
           IN  SubSeq(seq, 1, i - 1) \o <<x>> \o SubSeq(seq, i, Len(seq))

sorted(iterable, before) ==
  LET S[k \in 0..Len(iterable)] ==
        IF k = 0 THEN <<>> ELSE StableInsert(S[k - 1], k, before)
  IN  [k \in 1..Len(iterable) |-> iterable[S[Len(iterable)][k]]]

\* ------------------------------------------------------------ build_table
\* collections.Counter over a list: the distinct values in order of first
\* occurrence (the order dict iteration gives)
CounterKeys(values) ==
  LET first == {i \in 1..Len(values) : \A j \in 1..(i - 1) : values[j] # values[i]}
      K[k \in 0..Len(values)] ==
        IF k = 0 THEN <<>>
        ELSE IF k \in first THEN Append(K[k - 1], values[k]) ELSE K[k - 1]
  IN  K[Len(values)]

\* Counter(values)[key]: the number of occurrences, 0 for a missing key
Count(values, key) == Cardinality({i \in 1..Len(values) : values[i] = key})

\* a slip: the whole field compared with the token
is_owned_exact(x) == Chars(x.status_whiteboard) = Chars("fst_owner")

is_owned(x) == Contains(Chars("fst_owner"), Chars(x.status_whiteboard))

build_table(buglist, attribute) ==
  LET attrs == [i \in 1..Len(buglist) |-> buglist[i][attribute]]
      frequency == CounterKeys(attrs)
      owned(category) ==
        LET group == SelectSeq(buglist, LAMBDA x : x[attribute] = category)
        IN  [i \in 1..Len(group) |-> is_owned(group[i])]
  IN  [k \in 1..Len(frequency) |->
         LET category == frequency[k]
             total == Count(attrs, category)
         IN  << category,
                str(total),
                str(Count(owned(category), TRUE)),
                str(Count(owned(category), FALSE)) >>]

\* ------------------------------------------------------------- save_table
\* a slip: the row's total bound to the column owned
tupels_shifted(table_rows, attribute, today_) ==
  [i \in 1..Len(table_rows) |->
     [date |-> today_, attribute |-> attribute, category |-> table_rows[i][1],
      owned |-> table_rows[i][2], unowned |-> table_rows[i][4]]]

\* the parameter dictionaries save_table hands to the insert
tupels(table_rows, attribute, today_) ==
  [i \in 1..Len(table_rows) |->
     [date |-> today_, attribute |-> attribute, category |-> table_rows[i][1],
      owned |-> table_rows[i][3], unowned |-> table_rows[i][4]]]

Key(e) == <<e.date, e.attribute, e.category>>

\* BUG_TABLE: the columns owned and unowned are Integer, so a decimal numeral
\* bound to them is stored as the number; (date, attribute, category) is the
\* primary key
BUG_TABLE(t) ==
  [date |-> t.date, attribute |-> t.attribute, category |-> t.category,
   owned |-> int(t.owned), unowned |-> int(t.unowned)]

\* a slip: the table declared without its primary key
Collides_never(table, params) == FALSE

\* the primary key refuses the insert: a key of the batch is in the table
\* already, or twice in the batch
Collides(table, params) ==
  \/ \E i \in 1..Len(params) : \E e \in table : Key(e) = Key(params[i])
  \/ \E i, j \in 1..Len(params) : i # j /\ Key(params[i]) = Key(params[j])

\* connection.execute(BUG_TABLE.insert(), tupels), one statement, committed
\* as a whole or not at all
save_table(table, table_rows, attribute, today_) ==
  LET params == tupels(table_rows, attribute, today_)
  IN  IF Collides(table, params) THEN table
      ELSE table \cup {BUG_TABLE(params[i]) : i \in 1..Len(params)}

\* ------------------------------------------------------------- draw_table
\* a slip: the lookup table not consulted
sort_key_raw(key) == key

sort_key(key) == IF key \in DOMAIN SORT_MAP THEN SORT_MAP[key] ELSE key

ordered_rows(table_fields, table_rows) ==
  LET n == Len(table_rows)
      key(i) == Chars(sort_key(table_rows[i][1]))
  IN  IF table_fields[1] = "component"
      THEN sorted(table_rows,
                  [i \in 1..n |-> [j \in 1..n |->
                     int(table_rows[i][2]) > int(table_rows[j][2])]])
      ELSE sorted(table_rows,
                  [i \in 1..n |-> [j \in 1..n |-> StrLess(key(i), key(j))]])

draw_table(table_fields, table_rows, limit, previous) ==
  LET label == table_fields[2]
      ordered == ordered_rows(table_fields, table_rows)
      cut == IF limit # None /\ limit < Len(ordered)
             THEN SubSeq(ordered, 1, limit) ELSE ordered
      headers == IF previous
                 THEN <<label, "Tickets (delta)", "Owned (delta)", "Unowned (delta)">>
                 ELSE <<label, "Tickets", "Owned", "Unowned">>
  IN  [title |-> <<"Tickets by ", label>>, headers |-> headers, rows |-> cut]

\* ------------------------------------------------- the tracker's records
\* what bugzilla.query can return: records with the fields the program reads
Bug(priority, status, severity, component, version, whiteboard) ==
  [priority |-> priority, status |-> status, severity |-> severity,
   component |-> component, version |-> version,
   status_whiteboard |-> whiteboard]

B1 == Bug("high", "NEW", "high", "kernel", "22", "x fst_owner=al")
B2 == Bug("low", "ASSIGNED", "medium", "bash", "23", "")
B3 == Bug("high", "NEW", "low", "kernel", "22", "fst_own")

BugPool == {B1, B2, B3}

SeqsUpTo(S, n) == UNION {[1..k -> S] : k \in 0..n}

\* the answers of the tracker the runs are checked with: no record, one
\* record, two records that share some categories and differ in ownership,
\* and a record that shares no category with the others
Batches == {<<>>, <<B1>>, <<B3, B1>>, <<B2>>}

\* get_security_bugs: a finite list of records whose status the query asks for
get_security_bugs ==
  {b \in Batches : \A i \in 1..Len(b) : b[i].status \in VALID_BUG_STATUSES}

\* ------------------------------------------------------------------ state
VARIABLES
  today,    \* date.today(): the calendar day
  store,    \* the rows of the table "bugs" in sqlite3.db
  run,      \* per process: the position and the variables of its run
  nruns,    \* runs started so far
  calls,    \* history: per (date, attribute) the number of save_table calls
  written,  \* history: per (date, attribute) the row sets save_table stored
  collected,\* history: dates a collection run finished, having stored entries
  partial,  \* history: per date, the number of attributes a collection run
            \* had written when it aborted part-way, or None
  fin,      \* function-level specification: the arguments
  fout      \* function-level specification: the result

vars == <<today, store, run, nruns, calls, written, collected, partial, fin, fout>>

\* A run: pc is its position (idle: no run; check, fetch, store: the cron
\* branch; fetch, draw: the fetch branch; read: the date branch; done: ended,
\* not yet gone); table is the index of the loop over TABLES; rows and
\* printed are the last row list built and the last output; raised is the
\* uncaught exception, exit the exit status.  fetched, wrote (entries this run
\* inserted), late and latePartial (the run started on a date already
\* collected, or collected part-way) record history.
NoRun ==
  [pc |-> "idle", cron |-> FALSE, fetch |-> FALSE, readdate |-> 0,
   curdate |-> 0, show_delta_days |-> None, fetched |-> FALSE, bugs |-> <<>>,
   table |-> 1, rows |-> <<>>, printed |-> <<>>, raised |-> "", exit |-> None,
   wrote |-> 0, late |-> FALSE, latePartial |-> FALSE]

NoArgs == [f |-> "", bugs |-> <<>>, attribute |-> "", rows |-> <<>>, limit |-> None]

Init ==
  /\ today = 1
  /\ store = {}
  /\ run = [p \in Procs |-> NoRun]
  /\ nruns = 0
  /\ calls = [k \in Dates \X Attributes |-> 0]
  /\ written = [k \in Dates \X Attributes |-> <<>>]
  /\ collected = {}
  /\ partial = [d \in Dates |-> None]
  /\ fin = NoArgs
  /\ fout = <<>>

has_date(table, d) == Cardinality({e \in table : e.date = d}) # 0
has_snapshot(table, d, a) == \E e \in table : e.date = d /\ e.attribute = a

\* ---------------------------------------------------------------- __main__
\* argument parsing and the statements before the branches: fetch is the
\* default action, readdate is today unless --date names a day, curdate is
\* today
Main(p, cron, fetch, date, show_delta_days) ==
  /\ run[p].pc = "idle"
  /\ ~(cron /\ fetch) /\ (date # None => ~cron /\ ~fetch)
  /\ LET fetch_ == IF ~cron /\ date = None THEN TRUE ELSE fetch
     IN  run' = [run EXCEPT ![p] =
                   [NoRun EXCEPT
                      !.pc = IF cron THEN "check" ELSE IF fetch_ THEN "fetch" ELSE "read",
                      !.cron = cron, !.fetch = fetch_,
                      !.readdate = IF date # None THEN date ELSE today,
                      !.curdate = today,
                      !.show_delta_days = show_delta_days,
                      !.late = today \in collected,
                      !.latePartial = partial[today] # None]]
  /\ nruns' = nruns + 1
  /\ UNCHANGED <<today, store, calls, written, collected, partial, fin, fout>>

\* a slip: the collection not guarded at all
Check_nocheck(p) ==
  /\ run[p].pc = "check"
  /\ run' = [run EXCEPT ![p] = [@ EXCEPT !.pc = "fetch"]]
  /\ UNCHANGED <<today, store, nruns, calls, written, collected, partial, fin, fout>>

\* a slip: CHECK looks at one representative attribute, the catalog's last
Check_version(p) ==
  /\ run[p].pc = "check"
  /\ run' = [run EXCEPT ![p] =
               IF ~has_snapshot(store, run[p].curdate, "version")
               THEN [@ EXCEPT !.pc = "fetch"]
               ELSE [@ EXCEPT !.pc = "done",
                              !.printed = <<"Data has been stored already.">>,
                              !.exit = 1]]
  /\ UNCHANGED <<today, store, nruns, calls, written, collected, partial, fin, fout>>

\* cron branch, CHECK: count the stored entries of curdate
Check(p) ==
  /\ run[p].pc = "check"
  /\ LET count == Cardinality({e \in store : e.date = run[p].curdate})
     IN  run' = [run EXCEPT ![p] =
                   IF count = 0 THEN [@ EXCEPT !.pc = "fetch"]
                   ELSE [@ EXCEPT !.pc = "done",
                                  !.printed = <<"Data has been stored already.">>,
                                  !.exit = 1]]
  /\ UNCHANGED <<today, store, nruns, calls, written, collected, partial, fin, fout>>

\* bugs = get_security_bugs() returns
Fetch(p) ==
  /\ run[p].pc = "fetch"
  /\ \E buglist \in get_security_bugs :
       run' = [run EXCEPT ![p] =
                 [@ EXCEPT !.pc = IF run[p].cron THEN "store" ELSE "draw",
                           !.fetched = TRUE, !.bugs = buglist]]
  /\ UNCHANGED <<today, store, nruns, calls, written, collected, partial, fin, fout>>

\* a slip: the failure caught and the run carried on with no records
FetchFails_swallowed(p) ==
  /\ run[p].pc = "fetch"
  /\ run' = [run EXCEPT ![p] =
               [@ EXCEPT !.pc = IF run[p].cron THEN "store" ELSE "draw",
                         !.raised = "Fault"]]
  /\ UNCHANGED <<today, store, nruns, calls, written, collected, partial, fin, fout>>

\* bugzilla.query raises (network, API): nothing catches it
FetchFails(p) ==
  /\ run[p].pc = "fetch"
  /\ run' = [run EXCEPT ![p] =
               [@ EXCEPT !.pc = "done", !.raised = "Fault", !.exit = 1]]
  /\ UNCHANGED <<today, store, nruns, calls, written, collected, partial, fin, fout>>

\* the run record after the body of a "for table in TABLES" loop
NextTable(r) ==
  IF r.table = Len(TABLES)
  THEN [r EXCEPT !.table = @ + 1, !.pc = "done", !.exit = 0]
  ELSE [r EXCEPT !.table = @ + 1]

Raise(r, exception) == [r EXCEPT !.pc = "done", !.raised = exception, !.exit = 1]

\* cron branch, one turn of the loop: build_table, then save_table.  An
\* insert with no parameter sets stores nothing; whether the database layer
\* accepts or refuses it is its own business, so both happen.
Store(p) ==
  /\ run[p].pc = "store"
  /\ LET r == run[p]
         attribute == TABLES[r.table][1]
         rows == build_table(r.bugs, attribute)
         params == tupels(rows, attribute, r.curdate)
         refused == Collides(store, params)
         r1 == [r EXCEPT !.rows = rows]
     IN  \E accepted \in BOOLEAN :
           /\ (Len(rows) > 0 => accepted = ~refused)
           /\ store' = IF accepted
                       THEN save_table(store, rows, attribute, r.curdate)
                       ELSE store
           /\ calls' = [calls EXCEPT ![<<r.curdate, attribute>>] = @ + 1]
           /\ written' = IF accepted /\ Len(rows) > 0
                         THEN [written EXCEPT ![<<r.curdate, attribute>>] =
                                 Append(@, Range(rows))]
                         ELSE written
           /\ run' = [run EXCEPT ![p] =
                        IF accepted
                        THEN NextTable([r1 EXCEPT !.wrote = @ + Len(rows)])
                        ELSE Raise(r1, "IntegrityError")]
           /\ collected' = IF accepted /\ r.table = Len(TABLES)
                              /\ r.wrote + Len(rows) > 0
                           THEN collected \cup {r.curdate} ELSE collected
           /\ partial' = IF ~accepted /\ r.wrote > 0
                         THEN [partial EXCEPT ![r.curdate] = r.table - 1]
                         ELSE partial
  /\ UNCHANGED <<today, nruns, fin, fout>>

\* connection.execute raises before anything is written (the database is
\* locked or cannot be written), or the process is killed between two turns
StoreFails(p) ==
  /\ run[p].pc = "store"
  /\ run' = [run EXCEPT ![p] = Raise(@, "OperationalError")]
  /\ partial' = IF run[p].wrote > 0
                THEN [partial EXCEPT ![run[p].curdate] = run[p].table - 1]
                ELSE partial
  /\ UNCHANGED <<today, store, nruns, calls, written, collected, fin, fout>>

\* a slip: the live report storing its rows as the collection does
Draw_saving(p) ==
  /\ run[p].pc = "draw"
  /\ LET r == run[p]
         rows == build_table(r.bugs, TABLES[r.table][1])
     IN  /\ run' = [run EXCEPT ![p] = NextTable([r EXCEPT !.rows = rows])]
         /\ store' = save_table(store, rows, TABLES[r.table][1], r.curdate)
  /\ UNCHANGED <<today, nruns, calls, written, collected, partial, fin, fout>>

\* fetch branch, one turn of the loop
Draw(p) ==
  /\ run[p].pc = "draw"
  /\ LET r == run[p]
         rows == build_table(r.bugs, TABLES[r.table][1])
     IN  run' = [run EXCEPT ![p] =
                   NextTable([r EXCEPT
                     !.rows = rows,
                     !.printed = <<draw_table(TABLES[r.table], rows, DisplayLimit, FALSE)>>])]
  /\ UNCHANGED <<today, store, nruns, calls, written, collected, partial, fin, fout>>

Orders(S) ==
  {s \in [1..Cardinality(S) -> S] : \A i, j \in DOMAIN s : i # j => s[i] # s[j]}

\* date branch, one turn of the loop: select the entries of (readdate,
\* attribute), in whatever order the database returns them, and rebuild the rows
Read(p) ==
  /\ run[p].pc = "read"
  /\ LET r == run[p]
         found == {e \in store : e.date = r.readdate /\ e.attribute = TABLES[r.table][1]}
     IN  \E fetchall \in Orders(found) :
           LET rows == [i \in 1..Len(fetchall) |->
                          LET elem == fetchall[i]
                          IN  << elem.category, str(elem.owned + elem.unowned),
                                 str(elem.owned), str(elem.unowned) >>]
           IN  run' = [run EXCEPT ![p] =
                         NextTable([r EXCEPT
                           !.rows = rows,
                           !.printed = <<draw_table(TABLES[r.table], rows, DisplayLimit, FALSE)>>])]
  /\ UNCHANGED <<today, store, nruns, calls, written, collected, partial, fin, fout>>

\* the process ends
Exit(p) ==
  /\ run[p].pc = "done"
  /\ run' = [run EXCEPT ![p] = NoRun]
  /\ UNCHANGED <<today, store, nruns, calls, written, collected, partial, fin, fout>>

\* midnight
Tick ==
  /\ today < MaxDate
  /\ today' = today + 1
  /\ UNCHANGED <<store, run, nruns, calls, written, collected, partial, fin, fout>>

Delta == {None, 1}

Step(p) ==
  \/ Check(p)
  \/ Fetch(p)
  \/ FetchFails(p)
  \/ Store(p)
  \/ StoreFails(p)
  \/ Draw(p)
  \/ Read(p)
  \/ Exit(p)

\* the command lines tried: one of --cron, --fetch, --date D or none of
\* them, and --show-delta-days N with --date
Start(p) ==
  \E cron, fetch \in BOOLEAN, date \in {None} \cup Dates, n \in Delta :
     /\ (n # None => date # None)
     /\ Main(p, cron, fetch, date, n)

\* two invocations of the program on one database, overlapping in any way
Next ==
  \/ \E p \in Procs : nruns < Cardinality(Procs) /\ Start(p)
  \/ \E p \in Procs : Step(p)
  \/ Tick

Spec == Init /\ [][Next]_vars

\* invocations one after the other: the next starts when the last has ended
SeqNext ==
  \/ nruns < MaxRuns /\ Start(1)
  \/ Step(1)
  \/ Tick

SeqSpec == Init /\ [][SeqNext]_vars

\* the same, followed by one more report from a stored date
ReportNext ==
  \/ SeqNext
  \/ /\ nruns = MaxRuns
     /\ \E date \in Dates, n \in Delta : Main(1, FALSE, FALSE, date, n)

ReportSpec == Init /\ [][ReportNext]_vars

\* ------------------------------------------- the functions on their own
\* rows as build_table and the date branch make them
Row(category, owned, unowned) ==
  <<category, str(owned + unowned), str(owned), str(unowned)>>

RowPool ==
  { Row("low", 1, 1), Row("urgent", 0, 1), Row("medium", 5, 15),
    Row("unspecified", 2, 0), Row("3x", 3, 2) }

Limits == {None, 2}

FnInit ==
  /\ today = 1
  /\ store = {}
  /\ run = [p \in Procs |-> NoRun]
  /\ nruns = 0
  /\ calls = [k \in Dates \X Attributes |-> 0]
  /\ written = [k \in Dates \X Attributes |-> <<>>]
  /\ collected = {}
  /\ partial = [d \in Dates |-> None]
  /\ fout = <<>>
  /\ \/ \E b \in SeqsUpTo(BugPool, MaxBugs), a \in Attributes :
          fin = [NoArgs EXCEPT !.f = "build_table", !.bugs = b, !.attribute = a]
     \/ \E r \in SeqsUpTo(RowPool, MaxRows), t \in 1..Len(TABLES), l \in Limits :
          fin = [NoArgs EXCEPT !.f = "draw_table", !.attribute = TABLES[t][1],
                               !.rows = r, !.limit = l]

TableOf(attribute) == CHOOSE t \in Range(TABLES) : t[1] = attribute

CallBuildTable ==
  /\ fin.f = "build_table" /\ fout = <<>>
  /\ fout' = <<build_table(fin.bugs, fin.attribute)>>
  /\ UNCHANGED <<today, store, run, nruns, calls, written, collected, partial, fin>>

CallDrawTable ==
  /\ fin.f = "draw_table" /\ fout = <<>>
  /\ fout' = <<draw_table(TableOf(fin.attribute), fin.rows, fin.limit, FALSE)>>
  /\ UNCHANGED <<today, store, run, nruns, calls, written, collected, partial, fin>>

FnNext == CallBuildTable \/ CallDrawTable

FnSpec == FnInit /\ [][FnNext]_vars

\* ---------------------------------------------------- outcomes of a run
Skipped(r) ==
  /\ r.pc = "done" /\ r.exit = 1 /\ r.raised = ""
  /\ r.printed = <<"Data has been stored already.">>

IsReport(r) == r.pc # "idle" /\ ~r.cron

\* every row set save_table stored is in the table with the values written
Kept ==
  \A k \in DOMAIN written : \A i \in 1..Len(written[k]) : \A row \in written[k][i] :
     \E e \in store :
        /\ Key(e) = <<k[1], k[2], row[1]>>
        /\ e.owned = int(row[3]) /\ e.unowned = int(row[4])

\* =============================================================== claims
RECURSIVE SumTotals(_)
SumTotals(rows) ==
  IF Len(rows) = 0 THEN 0
  ELSE int(rows[Len(rows)][2]) + SumTotals(SubSeq(rows, 1, Len(rows) - 1))

\* C3: build_table returns one row per distinct value of the attribute; in
\* each row owned + unowned = total, owned counts the records of the category
\* whose status_whiteboard contains 'fst_owner'; the totals add up to the
\* number of records; no records give no rows.
C3_AggregationConservation ==
  (fin.f = "build_table" /\ Len(fout) = 1) =>
    LET rows == fout[1]
        buglist == fin.bugs
        a == fin.attribute
    IN  /\ {rows[i][1] : i \in 1..Len(rows)} = {buglist[j][a] : j \in 1..Len(buglist)}
        /\ \A i, j \in 1..Len(rows) : i # j => rows[i][1] # rows[j][1]
        /\ \A i \in 1..Len(rows) :
             /\ int(rows[i][3]) + int(rows[i][4]) = int(rows[i][2])
             /\ int(rows[i][3]) =
                  Cardinality({j \in 1..Len(buglist) :
                     /\ buglist[j][a] = rows[i][1]
                     /\ Contains(Chars("fst_owner"), Chars(buglist[j].status_whiteboard))})
        /\ SumTotals(rows) = Len(buglist)
        /\ (Len(buglist) = 0 => Len(rows) = 0)

\* a category with an owned and an unowned record, beside another category
C3_Witness ==
  /\ fin.f = "build_table" /\ Len(fout) = 1
  /\ Len(fout[1]) = 2
  /\ \E i \in 1..2 : int(fout[1][i][3]) = 1 /\ int(fout[1][i][4]) = 1

\* the sort key the claim gives a category
RankKey(category) ==
  CASE category \in {"urgent", "NEW"} -> "1"
    [] category \in {"high", "ASSIGNED"} -> "2"
    [] category \in {"medium", "MODIFIED"} -> "3"
    [] category \in {"low", "unspecified", "ON_QA"} -> "4"
    [] OTHER -> category

Categories(rows) == [i \in 1..Len(rows) |-> rows[i][1]]

\* C6: for an attribute other than component, draw_table's rows are the input
\* rows in non-decreasing order of sort key (the rank of a category of the
\* lookup table, the category itself otherwise, compared as strings), rows of
\* equal key in input order, cut to the limit; low, urgent, medium come out
\* as urgent, medium, low.
C6_RankOrdering ==
  (fin.f = "draw_table" /\ fin.attribute # "component" /\ Len(fout) = 1) =>
    LET in == fin.rows
        n == Len(in)
        out == fout[1].rows
        m == IF fin.limit = None \/ fin.limit > n THEN n ELSE fin.limit
        key(i) == Chars(RankKey(in[i][1]))
    IN  /\ \E pi \in [1..n -> 1..n] :
             /\ \A i, j \in 1..n : i # j => pi[i] # pi[j]
             /\ \A i, j \in 1..n : i < j => ~StrLess(key(pi[j]), key(pi[i]))
             /\ \A i, j \in 1..n : (i < j /\ key(pi[i]) = key(pi[j])) => pi[i] < pi[j]
             /\ out = [i \in 1..m |-> in[pi[i]]]
        /\ (Categories(in) = <<"low", "urgent", "medium">> /\ fin.limit = None)
             => Categories(out) = <<"urgent", "medium", "low">>

C6_Witness ==
  /\ fin.f = "draw_table" /\ fin.attribute = "priority" /\ fin.limit = None
  /\ Categories(fin.rows) = <<"low", "urgent", "medium">>
  /\ Len(fout) = 1
  /\ Categories(fout[1].rows) = <<"urgent", "medium", "low">>

\* C1: once a collection run of a date has finished with entries stored, a
\* collection run started later on that date ends in SKIP (the message, exit
\* status 1), never fetches, and no step taken while it runs changes the
\* table.
C1_IdempotentCollection ==
  /\ [](\A p \in Procs :
          (run[p].cron /\ run[p].late) =>
             /\ run[p].pc \in {"check", "done"}
             /\ ~run[p].fetched /\ run[p].wrote = 0
             /\ (run[p].pc = "done" => Skipped(run[p])))
  /\ [][\A p \in Procs : (run[p].cron /\ run[p].late) => store' = store]_vars

C1_Witness ==
  \E p \in Procs :
     /\ run[p].cron /\ run[p].late /\ Skipped(run[p])
     /\ has_date(store, run[p].curdate)

\* C2 as claimed: every (date, attribute) receives at most one save_table
\* call, and what was stored stays as written.
C2_OneCallPerKey ==
  /\ \A k \in DOMAIN calls : calls[k] <= 1
  /\ Kept

\* C2, amended: every (date, attribute) receives at most one save_table call
\* that stores entries, and what was stored stays as written.
C2_WriteOnce ==
  /\ \A k \in DOMAIN written : Len(written[k]) <= 1
  /\ Kept

\* a date collected part-way, and a later collection run on it that skipped
C2_Witness ==
  \E p \in Procs : \E d \in Dates :
     /\ Skipped(run[p]) /\ run[p].curdate = d
     /\ Len(written[<<d, "priority">>]) = 1
     /\ Len(written[<<d, "version">>]) = 0

\* C4: a run whose tracker query failed has ended, with no save_table call
\* made and nothing written; after a collection run that failed so, the table
\* holds no entry of its date, so that the next CHECK of the date passes.
C4_NoSnapshotOnFetchFailure ==
  \A p \in Procs :
     run[p].raised = "Fault" =>
        /\ run[p].pc = "done" /\ run[p].exit = 1
        /\ run[p].table = 1 /\ run[p].wrote = 0
        /\ (run[p].cron => ~has_date(store, run[p].curdate))

C4_Witness ==
  \E p \in Procs : run[p].cron /\ run[p].raised = "Fault" /\ store # {}

\* C5: in the report from a stored date, the rows rebuilt for (readdate,
\* attribute) are the rows save_table was given for that key, in some order,
\* total re-derived as owned + unowned; no rows when the key was never
\* stored.
C5_SnapshotRoundTrip ==
  \A p \in Procs :
     (IsReport(run[p]) /\ ~run[p].fetch /\ run[p].table > 1) =>
        LET k == <<run[p].readdate, TABLES[run[p].table - 1][1]>>
            rows == run[p].rows
        IN  IF Len(written[k]) = 0 THEN Len(rows) = 0
            ELSE /\ Range(rows) = written[k][1]
                 /\ Len(rows) = Cardinality(written[k][1])
                 /\ \A i \in 1..Len(rows) :
                      int(rows[i][2]) = int(rows[i][3]) + int(rows[i][4])

\* two rows read back, one of them with owned and unowned records
C5_Witness ==
  \E p \in Procs :
     /\ IsReport(run[p]) /\ ~run[p].fetch /\ run[p].table > 1
     /\ Len(run[p].rows) = 2
     /\ \E i \in 1..2 : int(run[p].rows[i][3]) = 1

\* what the entries of (d, a) say of a category: <<total, owned, unowned>>,
\* zero when the category has no entry
ValuesOf(d, a, category) ==
  LET found == {e \in store : Key(e) = <<d, a, category>>}
  IN  IF found = {} THEN <<0, 0, 0>>
      ELSE LET e == CHOOSE x \in found : TRUE
           IN  <<e.owned + e.unowned, e.owned, e.unowned>>

\* C7: a report asked for with --show-delta-days N shows, for every category
\* of readdate's snapshot, the values of readdate minus the values N days
\* before (zero for a category absent then), and no other category.
C7_DeltaReport ==
  \A p \in Procs :
     (IsReport(run[p]) /\ ~run[p].fetch /\ run[p].table > 1
        /\ run[p].show_delta_days # None) =>
        LET r == run[p]
            a == TABLES[r.table - 1][1]
            shown == r.printed[1].rows
            current == {e.category : e \in {x \in store : x.date = r.readdate /\ x.attribute = a}}
        IN  /\ {shown[i][1] : i \in 1..Len(shown)} = current
            /\ \A i \in 1..Len(shown) :
                 LET now == ValuesOf(r.readdate, a, shown[i][1])
                     before == ValuesOf(r.readdate - r.show_delta_days, a, shown[i][1])
                 IN  /\ int(shown[i][2]) = now[1] - before[1]
                     /\ int(shown[i][3]) = now[2] - before[2]
                     /\ int(shown[i][4]) = now[3] - before[3]

\* C8: a step of a run in either report mode leaves the table as it is, and
\* the table changes only in a step of a collection run that is storing.
C8_ReportsReadOnly ==
  [][/\ \A p \in Procs : (IsReport(run[p]) /\ run'[p] # run[p]) => store' = store
     /\ store' # store =>
          \E p \in Procs : run[p].cron /\ run[p].pc = "store" /\ run'[p] # run[p]]_vars

\* a report reading while a collection of the same date is part-way
C8_Witness ==
  \E p, q \in Procs :
     /\ IsReport(run[p]) /\ run[p].pc \in {"read", "draw"} /\ run[p].table > 1
     /\ Len(run[p].rows) > 0
     /\ run[q].cron /\ run[q].pc = "store" /\ run[q].table > 1 /\ run[q].wrote > 0

UniqueKeys == \A e1, e2 \in store : Key(e1) = Key(e2) => e1 = e2

\* C9: with two collection runs of one date under way, the table never holds
\* two entries of one key; an insert that meets a stored key raises
\* IntegrityError, which ends the run, and leaves the table as it was; stored
\* entries are never changed or removed.
C9_CheckThenWriteRace ==
  /\ []UniqueKeys
  /\ [][/\ \A e \in store : e \in store'
        /\ \A p \in Procs :
             LET r == run[p]
                 a == TABLES[r.table][1]
             IN  (/\ r.pc = "store" /\ run'[p] # r /\ run'[p].raised # "OperationalError"
                  /\ Collides(store, tupels(build_table(r.bugs, a), a, r.curdate)))
                 => /\ store' = store
                    /\ run'[p].pc = "done" /\ run'[p].raised = "IntegrityError"
                    /\ run'[p].exit = 1]_vars

\* both runs passed CHECK before either wrote; one has stored, the other met
\* its key
C9_Witness ==
  \E p, q \in Procs :
     /\ p # q /\ run[p].cron /\ run[q].cron /\ run[p].curdate = run[q].curdate
     /\ run[p].raised = "IntegrityError" /\ Len(run[p].rows) > 0
     /\ run[q].pc = "store" /\ run[q].wrote > 0

Snapshots(d) == {a \in Attributes : has_snapshot(store, d, a)}

\* C10: after a collection run of a date aborted with some attributes
\* written, the attributes with a snapshot of the date are the written ones,
\* the first of the catalog, and stay so; a later collection run on the date
\* ends in SKIP, never reaching the tracker or the table, so no IntegrityError.
C10_PartialNeverRepaired ==
  /\ \A d \in Dates :
       partial[d] # None =>
          /\ 0 < partial[d] /\ partial[d] < Len(TABLES)
          /\ Snapshots(d) = {TABLES[i][1] : i \in 1..partial[d]}
  /\ \A p \in Procs :
       (run[p].cron /\ run[p].latePartial) =>
          /\ run[p].pc \in {"check", "done"}
          /\ ~run[p].fetched /\ run[p].raised = ""
          /\ (run[p].pc = "done" => Skipped(run[p]))

C10_Witness ==
  \E p \in Procs :
     /\ run[p].cron /\ run[p].latePartial /\ Skipped(run[p])
     /\ partial[run[p].curdate] = 2
====
